---- MODULE Spec2Model ----
(***************************************************************************)
(* Device discovery and liveness tracking of the Blues BlueZ client:       *)
(* Changes::wait (device.rs), Adapter::device_set, DeviceSet::             *)
(* next_modification / change and DeviceStream::next (adapter.rs).         *)
(*                                                                         *)
(* Specification Spec drives one DeviceStream against a bus that adds and  *)
(* removes objects, emits property notifications, answers proxy            *)
(* construction and may close its streams.  Specification SpecMux drives   *)
(* one Changes multiplexer alone.                                          *)
(***************************************************************************)
EXTENDS Integers, Sequences, FiniteSets, TLC

\* ------------------------------------------------------------------ bounds
\* Bus events (object added/removed, notification, stream closed) per run.
MaxEvents == 3
\* Notifications delivered to the lone multiplexer of SpecMux.
MaxNotify == 2
\* Failed wait() calls on the lone multiplexer of SpecMux.
MaxFailed == 2

\* ------------------------------------------------------------- vocabulary
\* Object paths are strings; they are kept as sequences of pieces so that
\* str::starts_with is a prefix test that can tell "hci1" from "hci10".
adapter_path == <<"/org/bluez/hci1">>
PathA == <<"/org/bluez/hci1", "/", "dev_A">>
PathB == <<"/org/bluez/hci1", "/", "dev_B">>
PathX == <<"/org/bluez/hci1", "0", "/", "dev_X">>
PathS == <<"/org/bluez/hci1", "/", "dev_A", "/", "service0001">>
NoPath == <<>>

DeviceIface == "org.bluez.Device1"
GattIface == "org.bluez.GattService1"

\* The objects the bus may export: two devices of this adapter, one device of
\* adapter hci10 and one GATT service object below a device of this adapter.
BusObjects ==
    { [path |-> PathA, ifaces |-> {DeviceIface}],
      [path |-> PathB, ifaces |-> {DeviceIface}],
      [path |-> PathX, ifaces |-> {DeviceIface}],
      [path |-> PathS, ifaces |-> {GattIface}] }

\* The objects that may be exported when the adapter is opened.
InitialObjects == {o \in BusObjects : o.path \in {PathA, PathB}}

starts_with(s, prefix) ==
    /\ Len(prefix) <= Len(s)
    /\ SubSeq(s, 1, Len(prefix)) = prefix

\* enum PropertyName, and None of Option<PropertyName>
PropertyName == {"Alias", "Rssi", "ServiceUuids", "IsConnected"}
NoName == "None"

\* D-Bus property names a notification may carry ("Name" is not tracked).
RawNames == {"Alias", "RSSI", "UUIDs", "Connected", "Name"}

from_str(s) ==
    CASE s = "Alias" -> "Alias"
      [] s = "RSSI" -> "Rssi"
      [] s = "UUIDs" -> "ServiceUuids"
      [] s = "Connected" -> "IsConnected"
      [] OTHER -> NoName

\* Faulty variant of DeviceSetInterest: every tracked property is listened to.
DeviceSetInterest_all == PropertyName

\* The interest set the Device Set opens every multiplexer with.
DeviceSetInterest == {"Alias", "ServiceUuids"}

\* ---------------------------------------------------------------- helpers
Last(s) == s[Len(s)]
Front(s) == SubSeq(s, 1, Len(s) - 1)

\* Every iteration order of a hash map's key set.
Orders(S) ==
    {f \in [1..Cardinality(S) -> S] : \A x \in S : \E i \in 1..Cardinality(S) : f[i] = x}

\* Faulty variant of swap_remove: Vec::truncate(i), which also drops every
\* element after index i.
swap_remove_truncate(v, i) == SubSeq(v, 1, i - 1)

\* Vec::swap_remove: the last element takes the place of the one removed.
swap_remove(v, i) ==
    IF i = Len(v) THEN Front(v) ELSE [Front(v) EXCEPT ![i] = Last(v)]

\* Faulty variant of position: an unknown path falls back to the first device.
position_or_first(devs, p) ==
    IF \E i \in 1..Len(devs) : devs[i].path = p
    THEN CHOOSE i \in 1..Len(devs) :
             /\ devs[i].path = p
             /\ \A j \in 1..(i - 1) : devs[j].path # p
    ELSE IF devs # <<>> THEN 1 ELSE 0

\* Iterator::position: first index whose device has the path, 0 for None.
position(devs, p) ==
    IF \E i \in 1..Len(devs) : devs[i].path = p
    THEN CHOOSE i \in 1..Len(devs) :
             /\ devs[i].path = p
             /\ \A j \in 1..(i - 1) : devs[j].path # p
    ELSE 0

\* ------------------------------------------------------ Device and Changes
Device(p) == [path |-> p]

\* Device::property_change_stream: a fresh subscription, nothing buffered.
property_change_stream(dev, interest) ==
    [path |-> dev.path, interest |-> interest, stream |-> <<>>,
     ended |-> FALSE, change_buffer |-> <<>>]

\* The names one notification pushes onto change_buffer: the changed keys in
\* the map's iteration order, then the invalidated names, filtered by interest.
RECURSIVE Interesting(_, _)
Interesting(names, interest) ==
    IF names = <<>> THEN <<>>
    ELSE LET name == from_str(Head(names))
         IN  (IF name # NoName /\ name \in interest THEN <<name>> ELSE <<>>)
                 \o Interesting(Tail(names), interest)

\* Faulty variant of Pushes: the invalidated names are forgotten.
Pushes_changed_only(keys, invalidated, interest) ==
    Interesting(keys, interest)

\* Faulty variant of Pushes: the interest set is not consulted.
Pushes_unfiltered(keys, invalidated, interest) ==
    Interesting(keys, PropertyName) \o Interesting(invalidated, PropertyName)

Pushes(keys, invalidated, interest) ==
    Interesting(keys, interest) \o Interesting(invalidated, interest)

\* Changes::wait, one poll of its future: the set of possible outcomes
\* [res, prop, changes].  res is "Ok" (a name is returned), "Err" (the
\* stream ended) or "Pending" (the future suspends in stream.next()).
RECURSIVE wait_loop(_)
wait_loop(c) ==
    IF c.stream = <<>>
    THEN {[res |-> IF c.ended THEN "Err" ELSE "Pending", prop |-> NoName, changes |-> c]}
    ELSE LET args == Head(c.stream)
             rest == [c EXCEPT !.stream = Tail(@)]
         IN  UNION { LET buf == rest.change_buffer
                                  \o Pushes(keys, args.invalidated_properties, c.interest)
                     IN  IF buf # <<>>
                         THEN {[res |-> "Ok", prop |-> Last(buf),
                                changes |-> [rest EXCEPT !.change_buffer = Front(buf)]]}
                         ELSE wait_loop([rest EXCEPT !.change_buffer = buf])
                   : keys \in Orders(args.changed_properties) }

\* Faulty variant of wait: the end of the stream is taken for silence.
wait_ignores_end(c) ==
    IF c.change_buffer # <<>>
    THEN {[res |-> "Ok", prop |-> Last(c.change_buffer),
           changes |-> [c EXCEPT !.change_buffer = Front(@)]]}
    ELSE {[out EXCEPT !.changes.ended = c.ended] :
             out \in wait_loop([c EXCEPT !.ended = FALSE])}

\* Faulty variant of wait: the channel is read before the buffer is looked at.
wait_reads_first(c) ==
    IF c.stream = <<>> /\ c.change_buffer # <<>>
    THEN {[res |-> "Ok", prop |-> Last(c.change_buffer),
           changes |-> [c EXCEPT !.change_buffer = Front(@)]]}
    ELSE wait_loop(c)

wait(c) ==
    IF c.change_buffer # <<>>
    THEN {[res |-> "Ok", prop |-> Last(c.change_buffer),
           changes |-> [c EXCEPT !.change_buffer = Front(@)]]}
    ELSE wait_loop(c)


\* ------------------------------------------------------------------ state
VARIABLES
    objects,               \* bus: the objects currently exported
    added_removed_stream,  \* DeviceSet.added_removed_stream: signals not yet taken
    stream_ended,          \* the bus closed added_removed_stream
    devices,               \* DeviceSet.devices
    change_streams,        \* DeviceSet.change_streams
    to_yield,              \* DeviceStream.to_yield
    pc,                    \* where the caller of DeviceStream::next is
    poll_next,             \* select: the side polled first at the next poll
    internal_state,        \* select: which of its two streams have finished
    second,                \* this poll is already at its second side
    done,                  \* FuturesUnordered: wait() futures that completed with Err
    pending_fut,           \* FilterMap: the closure future of the signal taken
    ret,                   \* result of the last change() / next() call
    note,                  \* what the signal closure last resolved to None for
    nEvents,               \* bus events so far
    initial,               \* history: devices at construction
    firstYields,           \* history: the first Len(initial) devices next() returned
    gone,                  \* history: paths whose last signal taken was a removal
    failed,                \* history: per multiplexer, its wait() has returned Err
    mux,                   \* SpecMux: the Changes under test
    mpc,                   \* SpecMux: where the caller of wait() is
    mret,                  \* SpecMux: result of the last wait()
    notified,              \* SpecMux history: interest names notified, per name
    returned,              \* SpecMux history: names wait() returned, per name
    nNotify,               \* SpecMux: notifications so far
    nErr,                  \* SpecMux history: wait() calls that failed
    log,                   \* SpecMux history: notifications and returned names, in order
    connected,             \* SpecDev, bus: the device's Connected property
    services_resolved,     \* SpecDev, bus: the device's ServicesResolved property
    subscribed,            \* SpecDev: the call holds a ServicesResolved change stream
    resolved_changed,      \* SpecDev: that stream has a change not yet taken
    resolved_ended,        \* SpecDev: that stream has ended
    dpc,                   \* SpecDev: where the caller of connect / gatt_services is
    call,                  \* SpecDev: what the call in progress has done so far
    history,               \* SpecDev history: the calls that have returned
    nDevEvents,            \* SpecDev: bus events so far
    addr_in,               \* SpecAddr: the string given to Address::from_str
    addr_res,              \* SpecAddr: the result of Address::from_str
    addr_text,             \* SpecAddr: the Display output of the parsed address
    uuid_in,               \* SpecUuid: the string given to Uuid::from_str
    uuid_res,              \* SpecUuid: the result of Uuid::from_str
    uuid_text              \* SpecUuid: the Display output of the parsed UUID

busVars == <<objects, added_removed_stream, stream_ended, nEvents>>
setVars == <<devices, change_streams, to_yield>>
callVars == <<pc, poll_next, internal_state, second, done, pending_fut, ret, note>>
histVars == <<initial, firstYields, gone, failed>>
muxVars == <<mux, mpc, mret, notified, returned, nNotify, nErr, log>>
devVars == <<connected, services_resolved, subscribed, resolved_changed, resolved_ended,
             dpc, call, history, nDevEvents>>
addrVars == <<addr_in, addr_res, addr_text>>
uuidVars == <<uuid_in, uuid_res, uuid_text>>
libVars == <<devVars, addrVars, uuidVars>>
vars == <<busVars, setVars, callVars, histVars, muxVars, libVars>>

NoFut == [path |-> NoPath, stage |-> "none", reply |-> "none"]
Ret(kind, path, prop) == [kind |-> kind, path |-> path, prop |-> prop]
NoRet == Ret("None", NoPath, NoName)

\* Notifications the bus emits for a device in Spec: one without any name of
\* interest, one with a changed and an invalidated name of interest.
DeviceBatches ==
    { [changed_properties |-> {"RSSI", "Connected"}, invalidated_properties |-> <<>>],
      [changed_properties |-> {"Alias"}, invalidated_properties |-> <<"UUIDs">>] }

\* Nothing has been parsed by Address::from_str.
NoAddr == [res |-> "none", bytes |-> <<>>]

AddrIdle ==
    /\ addr_in = <<>>
    /\ addr_res = NoAddr
    /\ addr_text = <<>>

\* Nothing has been parsed by Uuid::from_str.
NoUuid == [res |-> "none", bytes |-> <<>>]

UuidIdle ==
    /\ uuid_in = <<>>
    /\ uuid_res = NoUuid
    /\ uuid_text = <<>>

\* What a call of connect() or gatt_services() has done: `first` is the
\* answer of its first is_connected(), `recheck` the answer of the one after
\* a failed Connect, `calls` the Connect calls issued, `seen` whether
\* ServicesResolved was read as true, `enumerated` whether the managed
\* objects were fetched, `res` and `services` its result.
NoCall ==
    [op |-> "none", first |-> "none", recheck |-> "none", calls |-> 0,
     seen |-> FALSE, enumerated |-> FALSE, res |-> "none", services |-> {}]

DevIdle ==
    /\ connected = FALSE
    /\ services_resolved = FALSE
    /\ subscribed = FALSE
    /\ resolved_changed = FALSE
    /\ resolved_ended = FALSE
    /\ dpc = "idle"
    /\ call = NoCall
    /\ history = <<>>
    /\ nDevEvents = 0

MuxIdle ==
    /\ mux = property_change_stream(Device(PathA), {})
    /\ mpc = "idle"
    /\ mret = NoName
    /\ notified = [n \in PropertyName |-> 0]
    /\ returned = [n \in PropertyName |-> 0]
    /\ nNotify = 0
    /\ nErr = 0
    /\ log = <<>>

\* The adapter is open and device_set() has just subscribed to the object
\* manager's signals (adapter.rs:150); the snapshot is not taken yet.
Init ==
    /\ objects \in SUBSET InitialObjects
    /\ added_removed_stream = <<>>
    /\ stream_ended = FALSE
    /\ nEvents = 0
    /\ devices = <<>> /\ change_streams = <<>> /\ to_yield = <<>>
    /\ pc = "start"
    /\ poll_next = "Left" /\ internal_state = "Start" /\ second = FALSE
    /\ done = {}
    /\ pending_fut = NoFut
    /\ ret = NoRet
    /\ note = "none"
    /\ initial = <<>> /\ firstYields = <<>> /\ gone = {} /\ failed = <<>>
    /\ MuxIdle
    /\ DevIdle
    /\ AddrIdle
    /\ UuidIdle

\* -------------------------------------------------- construction (adapter)
\* The filter of the snapshot loop and of the signal closure.
is_device_of_adapter(path, ifaces) ==
    /\ starts_with(path, adapter_path)
    /\ DeviceIface \in ifaces

\* Adapter::device_set: `order` is the snapshot in the map's iteration order,
\* `ok` the objects whose Device::new and property_change_stream succeed.
RECURSIVE device_set(_, _)
device_set(order, ok) ==
    IF order = <<>> THEN [devices |-> <<>>, change_streams |-> <<>>]
    ELSE LET o == Head(order)
             rest == device_set(Tail(order), ok)
         IN  IF is_device_of_adapter(o.path, o.ifaces) /\ o \in ok
             THEN [devices |-> <<Device(o.path)>> \o rest.devices,
                   change_streams |->
                       <<property_change_stream(Device(o.path), DeviceSetInterest)>>
                           \o rest.change_streams]
             ELSE rest

\* Faulty variant of into_device_stream: nothing is queued for replay.
into_device_stream_empty(set) == <<>>

\* DeviceSet::into_device_stream: the replay buffer is a clone of devices.
into_device_stream(set) == set.devices

\* Adapter::device_stream.
device_stream ==
    /\ pc = "start"
    /\ \E order \in Orders(objects), ok \in SUBSET objects :
         LET set == device_set(order, ok)
         IN  /\ devices' = set.devices
             /\ change_streams' = set.change_streams
             /\ to_yield' = into_device_stream(set)
             /\ initial' = set.devices
             /\ failed' = [i \in 1..Len(set.change_streams) |-> FALSE]
    /\ pc' = "idle"
    /\ UNCHANGED <<busVars, poll_next, internal_state, second, done,
                   pending_fut, ret, note, firstYields, gone, muxVars, libVars>>


\* ------------------------------------------- the futures of one change()
\* Dropping the future of next_modification drops the select with its
\* FilterMap (and the closure future it holds) and the FuturesUnordered.
DropFutures ==
    /\ pending_fut' = NoFut
    /\ done' = {}
    /\ internal_state' = "Start"
    /\ poll_next' = "Left"
    /\ second' = FALSE
    /\ note' = "none"

\* History: the first Len(initial) devices returned by next().
Yield(src, dev) ==
    firstYields' = IF Len(firstYields) < Len(initial)
                   THEN Append(firstYields, [src |-> src, path |-> dev.path])
                   ELSE firstYields

\* select(...).poll_next: in state Start the side polled first alternates
\* from poll to poll, starting with the left stream; once a stream has
\* finished only the other one is polled.
StartPoll(is, pn) ==
    /\ pc' = IF is = "LeftFinished" THEN "right"
             ELSE IF is = "RightFinished" THEN "left"
             ELSE IF pn = "Left" THEN "left" ELSE "right"
    /\ second' = (is # "Start")
    /\ poll_next' = IF is # "Start" THEN pn ELSE IF pn = "Left" THEN "Right" ELSE "Left"

\* Faulty variant of next_replay: the replay also takes the signal at the
\* head of the subscription.
next_replay_takes_signal ==
    /\ pc = "idle"
    /\ to_yield # <<>>
    /\ to_yield' = Front(to_yield)
    /\ ret' = Ret("Replay", Last(to_yield).path, NoName)
    /\ Yield("replay", Last(to_yield))
    /\ added_removed_stream' = IF added_removed_stream = <<>> THEN <<>>
                               ELSE Tail(added_removed_stream)
    /\ UNCHANGED <<objects, stream_ended, nEvents, devices, change_streams, pc, poll_next,
                   internal_state, second, done, pending_fut, note, initial, gone, failed,
                   muxVars, libVars>>

\* DeviceStream::next, lines 363-365: replay one buffered device.
next_replay ==
    /\ pc = "idle"
    /\ to_yield # <<>>
    /\ to_yield' = Front(to_yield)
    /\ ret' = Ret("Replay", Last(to_yield).path, NoName)
    /\ Yield("replay", Last(to_yield))
    /\ UNCHANGED <<busVars, devices, change_streams, pc, poll_next, internal_state,
                   second, done, pending_fut, note, initial, gone, failed,
                   muxVars, libVars>>

\* DeviceStream::next, line 368: call change(), which calls next_modification,
\* which builds its streams and polls them; also the loop's next iteration
\* after a Removed.
next_change ==
    /\ \/ pc = "idle" /\ to_yield = <<>>
       \/ pc = "looping"
    /\ ret' = NoRet
    /\ StartPoll("Start", "Left")
    /\ UNCHANGED <<busVars, setVars, internal_state, done, pending_fut, note,
                   histVars, muxVars, libVars>>

\* change() returned Added or Changed and next() returns the device.
NextReturns(kind, dev, prop) ==
    /\ pc' = "idle"
    /\ ret' = Ret(kind, dev.path, prop)
    /\ Yield("live", dev)
    /\ DropFutures

\* Faulty variant of SideNotReady: next() treats the error of change() like
\* a Removed and calls change() again.
SideNotReady_retries(side, finished, fut, errors) ==
    LET is == IF ~finished THEN internal_state
              ELSE IF internal_state # "Start" THEN "BothFinished"
              ELSE IF side = "left" THEN "LeftFinished" ELSE "RightFinished"
    IN  IF is = "BothFinished"
        THEN /\ pc' = "looping"
             /\ ret' = Ret("Err", NoPath, NoName)
             /\ DropFutures
        ELSE /\ internal_state' = is
             /\ pending_fut' = fut
             /\ done' = done \cup errors
             /\ UNCHANGED <<ret, poll_next>>
             /\ note' = "none"
             /\ IF second
                THEN pc' = "parked" /\ second' = FALSE
                ELSE /\ pc' = (IF side = "left" THEN "right" ELSE "left")
                     /\ second' = TRUE

\* One side of the select had no item: `finished` tells whether it returned
\* Ready(None).  The other side is polled next, or the poll ends: with
\* Pending, or with None once both sides have finished, which change()
\* turns into its error and next() propagates.  `fut` is the closure future
\* FilterMap keeps, `errors` the wait() futures that completed with Err.
SideNotReady(side, finished, fut, errors) ==
    LET is == IF ~finished THEN internal_state
              ELSE IF internal_state # "Start" THEN "BothFinished"
              ELSE IF side = "left" THEN "LeftFinished" ELSE "RightFinished"
    IN  IF is = "BothFinished"
        THEN /\ pc' = "idle"
             /\ ret' = Ret("Err", NoPath, NoName)
             /\ DropFutures
        ELSE /\ internal_state' = is
             /\ pending_fut' = fut
             /\ done' = done \cup errors
             /\ UNCHANGED <<ret, poll_next>>
             /\ note' = "none"
             /\ IF second
                THEN pc' = "parked" /\ second' = FALSE
                ELSE /\ pc' = (IF side = "left" THEN "right" ELSE "left")
                     /\ second' = TRUE

\* Faulty variant of change_add: the new entries are inserted at the front.
change_add_front(device, change) ==
    [devices |-> <<device>> \o devices,
     change_streams |-> <<change>> \o change_streams]

\* DeviceSet::change, lines 299-303: apply Modification::Add.
change_add(device, change) ==
    [devices |-> Append(devices, device),
     change_streams |-> Append(change_streams, change)]

\* Faulty variant of change_remove: the multiplexer removed is the last one,
\* not the one at index i.
change_remove_pop(i) ==
    [devices |-> swap_remove(devices, i),
     change_streams |-> Front(change_streams),
     device |-> devices[i]]

\* Faulty variant of change_remove: the multiplexer of the removed device is
\* kept.
change_remove_keeps_stream(i) ==
    [devices |-> swap_remove(devices, i),
     change_streams |-> change_streams,
     device |-> devices[i]]

\* DeviceSet::change, lines 304-308: apply Modification::Remove(i).
change_remove(i) ==
    [devices |-> swap_remove(devices, i),
     change_streams |-> swap_remove(change_streams, i),
     device |-> devices[i]]

\* ---------------------------------------- left side: added_removed_stream
\* The closure future awaits a reply that has not arrived.
left_fut_pending ==
    /\ pc = "left"
    /\ pending_fut.reply = "wait"
    /\ SideNotReady("left", FALSE, pending_fut, {})
    /\ UNCHANGED <<busVars, setVars, histVars, muxVars, libVars>>

\* Device::new succeeded (line 236); the closure goes on to await
\* property_change_stream (line 244).
left_device_ok ==
    /\ pc = "left"
    /\ pending_fut.stage = "new" /\ pending_fut.reply = "ok"
    /\ SideNotReady("left", FALSE, [pending_fut EXCEPT !.stage = "listen", !.reply = "wait"], {})
    /\ UNCHANGED <<busVars, setVars, histVars, muxVars, libVars>>

\* Faulty variant of left_add_failed: the failure is propagated with `?` and
\* ends change() with an error.
left_add_failed_propagates ==
    /\ pc = "left"
    /\ pending_fut.reply = "err"
    /\ pc' = "idle"
    /\ ret' = Ret("Err", NoPath, NoName)
    /\ DropFutures
    /\ UNCHANGED <<busVars, setVars, histVars, muxVars, libVars>>

\* Device::new failed (lines 238-241), or property_change_stream failed
\* (lines 246-253): the closure resolves to None and FilterMap polls on.
left_add_failed ==
    /\ pc = "left"
    /\ pending_fut.reply = "err"
    /\ pending_fut' = NoFut
    /\ note' = IF pending_fut.stage = "new" THEN "skipping device" ELSE "failed to listen"
    /\ UNCHANGED <<busVars, setVars, pc, poll_next, internal_state, second, done,
                   ret, histVars, muxVars, libVars>>

\* property_change_stream succeeded: the closure yields Modification::Add
\* (line 256), which change() applies (lines 299-303).
left_add ==
    /\ pc = "left"
    /\ pending_fut.stage = "listen" /\ pending_fut.reply = "ok"
    /\ LET device == Device(pending_fut.path)
           set == change_add(device, property_change_stream(device, DeviceSetInterest))
       IN  /\ devices' = set.devices
           /\ change_streams' = set.change_streams
           /\ NextReturns("Added", Last(set.devices), NoName)
    /\ failed' = Append(failed, FALSE)
    /\ UNCHANGED <<busVars, to_yield, initial, gone, muxVars, libVars>>

\* FilterMap takes the next signal and runs the closure on it (lines 228-275).
TakesSignal ==
    /\ pc = "left"
    /\ pending_fut = NoFut
    /\ added_removed_stream # <<>>

\* An InterfacesAdded for a device of this adapter: the closure suspends in
\* Device::new.
left_take_added ==
    /\ TakesSignal
    /\ LET message == Head(added_removed_stream)
       IN  /\ message.kind = "InterfacesAdded"
           /\ is_device_of_adapter(message.object_path, message.interfaces)
           /\ gone' = gone \ {message.object_path}
           /\ SideNotReady("left", FALSE,
                           [path |-> message.object_path, stage |-> "new", reply |-> "wait"],
                           {})
    /\ added_removed_stream' = Tail(added_removed_stream)
    /\ UNCHANGED <<objects, stream_ended, nEvents, setVars, initial, firstYields, failed,
                   muxVars, libVars>>

\* Faulty variant of left_take_removed: next() returns the removed device
\* instead of looping.
left_take_removed_returns ==
    /\ TakesSignal
    /\ LET message == Head(added_removed_stream)
           i == position(devices, message.object_path)
       IN  /\ message.kind = "InterfacesRemoved"
           /\ is_device_of_adapter(message.object_path, message.interfaces)
           /\ i # 0
           /\ gone' = gone \cup {message.object_path}
           /\ devices' = change_remove(i).devices
           /\ change_streams' = change_remove(i).change_streams
           /\ ret' = Ret("Removed", change_remove(i).device.path, NoName)
           /\ failed' = swap_remove(failed, i)
    /\ pc' = "idle"
    /\ DropFutures
    /\ added_removed_stream' = Tail(added_removed_stream)
    /\ UNCHANGED <<objects, stream_ended, nEvents, to_yield, initial, firstYields, muxVars, libVars>>

\* An InterfacesRemoved for a device that is in the set: Modification::Remove(i)
\* (lines 265-266), which change() applies (lines 304-308); next() loops.
left_take_removed ==
    /\ TakesSignal
    /\ LET message == Head(added_removed_stream)
           i == position(devices, message.object_path)
       IN  /\ message.kind = "InterfacesRemoved"
           /\ is_device_of_adapter(message.object_path, message.interfaces)
           /\ i # 0
           /\ gone' = gone \cup {message.object_path}
           /\ devices' = change_remove(i).devices
           /\ change_streams' = change_remove(i).change_streams
           /\ ret' = Ret("Removed", change_remove(i).device.path, NoName)
           /\ failed' = swap_remove(failed, i)
    /\ pc' = "looping"
    /\ DropFutures
    /\ added_removed_stream' = Tail(added_removed_stream)
    /\ UNCHANGED <<objects, stream_ended, nEvents, to_yield, initial, firstYields, muxVars, libVars>>

\* An InterfacesRemoved for a device that is not in the set (line 268).
left_take_unknown ==
    /\ TakesSignal
    /\ LET message == Head(added_removed_stream)
       IN  /\ message.kind = "InterfacesRemoved"
           /\ is_device_of_adapter(message.object_path, message.interfaces)
           /\ position(devices, message.object_path) = 0
           /\ gone' = gone \cup {message.object_path}
    /\ note' = "unknown device"
    /\ added_removed_stream' = Tail(added_removed_stream)
    /\ UNCHANGED <<objects, stream_ended, nEvents, setVars, pc, poll_next,
                   internal_state, second, done, pending_fut, ret,
                   initial, firstYields, failed, muxVars, libVars>>

\* A signal for another object or interface (lines 257-259, 270-272).
left_take_other ==
    /\ TakesSignal
    /\ LET message == Head(added_removed_stream)
       IN  ~is_device_of_adapter(message.object_path, message.interfaces)
    /\ note' = "not a device"
    /\ added_removed_stream' = Tail(added_removed_stream)
    /\ UNCHANGED <<objects, stream_ended, nEvents, setVars, pc, poll_next,
                   internal_state, second, done, pending_fut, ret,
                   histVars, muxVars, libVars>>

\* No signal is queued: the stream is pending, or has ended.
left_empty ==
    /\ pc = "left"
    /\ pending_fut = NoFut
    /\ added_removed_stream = <<>>
    /\ SideNotReady("left", stream_ended, pending_fut, {})
    /\ UNCHANGED <<busVars, setVars, histVars, muxVars, libVars>>


\* ------------------------------- right side: the wait() futures (278-291)
\* The futures still in the FuturesUnordered of this call.
Remaining == (1..Len(change_streams)) \ done

\* The FuturesUnordered is empty (no device, or every wait() failed): the
\* right stream has finished.
right_finished ==
    /\ pc = "right"
    /\ Remaining = {}
    /\ SideNotReady("right", TRUE, pending_fut, {})
    /\ UNCHANGED <<busVars, setVars, histVars, muxVars, libVars>>

\* Faulty variant of right_change: the device reported is the first of the
\* set, not the one at index i.
right_change_first(i) ==
    /\ pc = "right"
    /\ i \in Remaining
    /\ \E out \in wait(change_streams[i]) :
         /\ out.res = "Ok"
         /\ change_streams' = [change_streams EXCEPT ![i] = out.changes]
         /\ NextReturns("Changed", devices[1], out.prop)
    /\ UNCHANGED <<busVars, devices, to_yield, initial, gone, failed, muxVars, libVars>>

\* A wait() future completes with a name: Modification::Change(i, prop),
\* which change() reports without touching the collections (lines 309-311).
right_change(i) ==
    /\ pc = "right"
    /\ i \in Remaining
    /\ \E out \in wait(change_streams[i]) :
         /\ out.res = "Ok"
         /\ change_streams' = [change_streams EXCEPT ![i] = out.changes]
         /\ NextReturns("Changed", devices[i], out.prop)
    /\ UNCHANGED <<busVars, devices, to_yield, initial, gone, failed, muxVars, libVars>>

\* No remaining future has a name to return.  Every one of them is polled:
\* it takes the notifications without interest and suspends, or completes
\* with an error, which filter_map drops (line 290).
Polled(i) == CHOOSE out \in wait(change_streams[i]) : TRUE

\* Faulty variant of right_none: the error of a wait() future is not dropped,
\* it ends change() with an error.
right_none_propagates ==
    /\ pc = "right"
    /\ Remaining # {}
    /\ \A i \in Remaining : Polled(i).res # "Ok"
    /\ change_streams' =
           [i \in 1..Len(change_streams) |->
               IF i \in Remaining THEN Polled(i).changes ELSE change_streams[i]]
    /\ LET errors == {i \in Remaining : Polled(i).res = "Err"}
       IN  /\ IF errors # {}
              THEN /\ pc' = "idle"
                   /\ ret' = Ret("Err", NoPath, NoName)
                   /\ DropFutures
              ELSE SideNotReady("right", FALSE, pending_fut, errors)
           /\ failed' = [i \in 1..Len(failed) |-> failed[i] \/ i \in errors]
    /\ UNCHANGED <<busVars, devices, to_yield, initial, firstYields, gone, muxVars, libVars>>

right_none ==
    /\ pc = "right"
    /\ Remaining # {}
    /\ \A i \in Remaining : Polled(i).res # "Ok"
    /\ change_streams' =
           [i \in 1..Len(change_streams) |->
               IF i \in Remaining THEN Polled(i).changes ELSE change_streams[i]]
    /\ LET errors == {i \in Remaining : Polled(i).res = "Err"}
       IN  /\ SideNotReady("right", errors = Remaining, pending_fut, errors)
           /\ failed' = [i \in 1..Len(failed) |-> failed[i] \/ i \in errors]
    /\ UNCHANGED <<busVars, devices, to_yield, initial, firstYields, gone, muxVars, libVars>>

\* ---------------------------------------------------- suspension (line 293)
\* A waker of the suspended future has fired.
Woken ==
    \/ pending_fut # NoFut /\ pending_fut.reply # "wait"
    \/ /\ pending_fut = NoFut
       /\ internal_state # "LeftFinished"
       /\ (added_removed_stream # <<>> \/ stream_ended)
    \/ /\ internal_state # "RightFinished"
       /\ \E i \in Remaining : change_streams[i].stream # <<>> \/ change_streams[i].ended

\* The executor polls the future of next() again.
wake ==
    /\ pc = "parked"
    /\ Woken
    /\ StartPoll(internal_state, poll_next)
    /\ UNCHANGED <<busVars, setVars, internal_state, done, pending_fut, ret, note,
                   histVars, muxVars, libVars>>

\* The caller drops the suspended future of next() (a timeout around it).
cancel ==
    /\ pc = "parked"
    /\ pc' = "idle"
    /\ DropFutures
    /\ UNCHANGED <<busVars, setVars, ret, histVars, muxVars, libVars>>

\* ---------------------------------------------------------------- the bus
\* The bus acts while the program is not in the middle of a poll.
BusMayAct ==
    /\ pc \in {"start", "idle", "parked"}
    /\ nEvents < MaxEvents

Signal(kind, o) == [kind |-> kind, object_path |-> o.path, interfaces |-> o.ifaces]

Emit(message) ==
    added_removed_stream' = IF stream_ended THEN added_removed_stream
                            ELSE Append(added_removed_stream, message)

bus_add(o) ==
    /\ BusMayAct
    /\ o \notin objects
    /\ objects' = objects \cup {o}
    /\ Emit(Signal("InterfacesAdded", o))
    /\ nEvents' = nEvents + 1
    /\ UNCHANGED <<stream_ended, setVars, callVars, histVars, muxVars, libVars>>

bus_remove(o) ==
    /\ BusMayAct
    /\ o \in objects
    /\ objects' = objects \ {o}
    /\ Emit(Signal("InterfacesRemoved", o))
    /\ nEvents' = nEvents + 1
    /\ UNCHANGED <<stream_ended, setVars, callVars, histVars, muxVars, libVars>>

\* PropertiesChanged of an exported object reaches every open subscription
\* for its path.
bus_notify(o, args) ==
    /\ BusMayAct
    /\ o \in objects
    /\ \E i \in 1..Len(change_streams) :
         change_streams[i].path = o.path /\ ~change_streams[i].ended
    /\ change_streams' =
           [i \in 1..Len(change_streams) |->
               IF change_streams[i].path = o.path /\ ~change_streams[i].ended
               THEN [change_streams[i] EXCEPT !.stream = Append(@, args)]
               ELSE change_streams[i]]
    /\ nEvents' = nEvents + 1
    /\ UNCHANGED <<objects, added_removed_stream, stream_ended, devices, to_yield,
                   callVars, histVars, muxVars, libVars>>

\* The signal subscription ends.
bus_end_signals ==
    /\ BusMayAct
    /\ ~stream_ended
    /\ stream_ended' = TRUE
    /\ nEvents' = nEvents + 1
    /\ UNCHANGED <<objects, added_removed_stream, setVars, callVars, histVars, muxVars, libVars>>

\* The notification channel of one multiplexer ends.
bus_end_changes(i) ==
    /\ BusMayAct
    /\ i \in 1..Len(change_streams)
    /\ ~change_streams[i].ended
    /\ change_streams' = [change_streams EXCEPT ![i].ended = TRUE]
    /\ nEvents' = nEvents + 1
    /\ UNCHANGED <<objects, added_removed_stream, stream_ended, devices, to_yield,
                   callVars, histVars, muxVars, libVars>>

\* The bus answers the call the closure future is suspended in.
bus_reply(r) ==
    /\ pc = "parked"
    /\ pending_fut.reply = "wait"
    /\ pending_fut' = [pending_fut EXCEPT !.reply = r]
    /\ UNCHANGED <<busVars, setVars, pc, poll_next, internal_state, second, done,
                   ret, note, histVars, muxVars, libVars>>

\* ---------------------------------------------------------- specification
Next ==
    \/ device_stream
    \/ next_replay
    \/ next_change
    \/ left_fut_pending
    \/ left_device_ok
    \/ left_add_failed
    \/ left_add
    \/ left_take_added
    \/ left_take_removed
    \/ left_take_unknown
    \/ left_take_other
    \/ left_empty
    \/ right_finished
    \/ \E i \in 1..Len(change_streams) : right_change(i)
    \/ right_none
    \/ wake
    \/ cancel
    \/ \E o \in BusObjects : bus_add(o)
    \/ \E o \in BusObjects : bus_remove(o)
    \/ \E o \in BusObjects, args \in DeviceBatches : bus_notify(o, args)
    \/ bus_end_signals
    \/ \E i \in 1..Len(change_streams) : bus_end_changes(i)
    \/ \E r \in {"ok", "err"} : bus_reply(r)

Spec == Init /\ [][Next]_vars


\* ----------------------------- SpecFair: next() awaited again and again
\* The caller awaits every next() to completion and then calls it again;
\* the executor polls a woken future; a poll runs to its end; the bus
\* answers every method call.  The bus is not obliged to emit anything.
NextFair ==
    \/ device_stream
    \/ next_replay
    \/ next_change
    \/ left_fut_pending
    \/ left_device_ok
    \/ left_add_failed
    \/ left_add
    \/ left_take_added
    \/ left_take_removed
    \/ left_take_unknown
    \/ left_take_other
    \/ left_empty
    \/ right_finished
    \/ \E i \in 1..Len(change_streams) : right_change(i)
    \/ right_none
    \/ wake
    \/ \E o \in BusObjects : bus_add(o)
    \/ \E o \in BusObjects : bus_remove(o)
    \/ \E o \in BusObjects, args \in DeviceBatches : bus_notify(o, args)
    \/ bus_end_signals
    \/ \E i \in 1..Len(change_streams) : bus_end_changes(i)
    \/ \E r \in {"ok", "err"} : bus_reply(r)

\* The steps of the program: construction, the calls of next() and the
\* polls of its future.
Program ==
    \/ device_stream
    \/ next_replay
    \/ next_change
    \/ left_fut_pending
    \/ left_device_ok
    \/ left_add_failed
    \/ left_add
    \/ left_take_added
    \/ left_take_removed
    \/ left_take_unknown
    \/ left_take_other
    \/ left_empty
    \/ right_finished
    \/ \E i \in 1..Len(change_streams) : right_change(i)
    \/ right_none
    \/ wake

SpecFair ==
    /\ Init
    /\ [][NextFair]_vars
    /\ WF_vars(Program)
    /\ WF_vars(\E r \in {"ok", "err"} : bus_reply(r))


\* ------------------------------------------- SpecMux: one Changes alone
\* Notifications of SpecMux: an untracked name only; two changed names and
\* an invalidated one; the same name changed and invalidated; one changed
\* name and two invalidated ones.
MuxBatches ==
    { [changed_properties |-> {"Name"}, invalidated_properties |-> <<>>],
      [changed_properties |-> {"Alias", "RSSI"}, invalidated_properties |-> <<"UUIDs">>],
      [changed_properties |-> {"Alias"}, invalidated_properties |-> <<"Alias">>],
      [changed_properties |-> {"RSSI"}, invalidated_properties |-> <<"Connected", "Name">>] }

\* How often a notification names `n` (changed or invalidated).
RECURSIVE Count(_, _)
Count(names, n) ==
    IF names = <<>> THEN 0
    ELSE (IF Head(names) = n THEN 1 ELSE 0) + Count(Tail(names), n)

Names(args) ==
    (CHOOSE keys \in Orders(args.changed_properties) : TRUE) \o args.invalidated_properties

RawOf(n) == CHOOSE s \in RawNames : from_str(s) = n

InitMux ==
    /\ objects = {}
    /\ added_removed_stream = <<>>
    /\ stream_ended = FALSE
    /\ nEvents = 0
    /\ devices = <<>> /\ change_streams = <<>> /\ to_yield = <<>>
    /\ pc = "start"
    /\ poll_next = "Left" /\ internal_state = "Start" /\ second = FALSE
    /\ done = {}
    /\ pending_fut = NoFut
    /\ ret = NoRet
    /\ note = "none"
    /\ initial = <<>> /\ firstYields = <<>> /\ gone = {} /\ failed = <<>>
    /\ \E interest \in SUBSET PropertyName :
         mux = property_change_stream(Device(PathA), interest)
    /\ mpc = "idle"
    /\ mret = NoName
    /\ notified = [n \in PropertyName |-> 0]
    /\ returned = [n \in PropertyName |-> 0]
    /\ nNotify = 0
    /\ nErr = 0
    /\ log = <<>>
    /\ DevIdle
    /\ AddrIdle
    /\ UuidIdle

nonMuxVars == <<busVars, setVars, callVars, histVars, libVars>>

\* The bus emits PropertiesChanged for the device.
mux_notify(args) ==
    /\ nNotify < MaxNotify
    /\ ~mux.ended
    /\ mux' = [mux EXCEPT !.stream = Append(@, args)]
    /\ notified' = [n \in PropertyName |->
                       notified[n] + IF n \in mux.interest
                                     THEN Count(Names(args), RawOf(n)) ELSE 0]
    /\ nNotify' = nNotify + 1
    /\ log' = Append(log, [kind |-> "notify", args |-> args])
    /\ UNCHANGED <<mpc, mret, returned, nErr, nonMuxVars>>

\* The notification channel ends.
mux_end ==
    /\ ~mux.ended
    /\ mux' = [mux EXCEPT !.ended = TRUE]
    /\ UNCHANGED <<mpc, mret, notified, returned, nNotify, nErr, log, nonMuxVars>>

\* The outcome of one poll of the wait() future.
WaitPolled(out) ==
    /\ out.res = "Err" => nErr < MaxFailed
    /\ nErr' = IF out.res = "Err" THEN nErr + 1 ELSE nErr
    /\ mux' = out.changes
    /\ mret' = IF out.res = "Ok" THEN out.prop ELSE out.res
    /\ mpc' = IF out.res = "Pending" THEN "waiting" ELSE "idle"
    /\ returned' = IF out.res = "Ok"
                   THEN [returned EXCEPT ![out.prop] = @ + 1]
                   ELSE returned
    /\ log' = IF out.res = "Ok"
              THEN Append(log, [kind |-> "return", name |-> out.prop])
              ELSE log
    /\ UNCHANGED <<notified, nNotify, nonMuxVars>>

\* Changes::wait is called and polled.
mux_wait ==
    /\ mpc = "idle"
    /\ \E out \in wait(mux) : WaitPolled(out)

\* The suspended future is woken and resumes in its loop (line 291).
mux_wake ==
    /\ mpc = "waiting"
    /\ mux.stream # <<>> \/ mux.ended
    /\ \E out \in wait_loop(mux) : WaitPolled(out)

\* The caller drops the suspended future.
mux_cancel ==
    /\ mpc = "waiting"
    /\ mpc' = "idle"
    /\ mret' = "Cancelled"
    /\ UNCHANGED <<mux, notified, returned, nNotify, nErr, log, nonMuxVars>>

NextMux ==
    \/ \E args \in MuxBatches : mux_notify(args)
    \/ mux_end
    \/ mux_wait
    \/ mux_wake
    \/ mux_cancel

SpecMux == InitMux /\ [][NextMux]_vars


\* ------------- SpecDev: Device::connect and Device::gatt_services alone
\* Bus events (connected, disconnected, services resolved, stream ended).
MaxDevEvents == 3
\* Calls of connect() and gatt_services() per run.
MaxCalls == 2

\* No DeviceStream is under test.
SetIdle ==
    /\ objects = BusObjects
    /\ added_removed_stream = <<>>
    /\ stream_ended = FALSE
    /\ nEvents = 0
    /\ devices = <<>> /\ change_streams = <<>> /\ to_yield = <<>>
    /\ pc = "start"
    /\ poll_next = "Left" /\ internal_state = "Start" /\ second = FALSE
    /\ done = {}
    /\ pending_fut = NoFut
    /\ ret = NoRet
    /\ note = "none"
    /\ initial = <<>> /\ firstYields = <<>> /\ gone = {} /\ failed = <<>>

nonDevVars == <<busVars, setVars, callVars, histVars, muxVars, addrVars, uuidVars>>
devBusVars == <<connected, services_resolved, resolved_changed, resolved_ended, nDevEvents>>

\* The device the calls are made on is dev_A; it may be connected, with its
\* services resolved or not, when the first call is made.
InitDev ==
    /\ SetIdle
    /\ MuxIdle
    /\ AddrIdle
    /\ UuidIdle
    /\ connected \in BOOLEAN
    /\ services_resolved \in BOOLEAN
    /\ services_resolved => connected
    /\ subscribed = FALSE
    /\ resolved_changed = FALSE
    /\ resolved_ended = FALSE
    /\ dpc = "idle"
    /\ call = NoCall
    /\ history = <<>>
    /\ nDevEvents = 0

\* A read of a boolean property: the bus's value, or a failure of the read.
Read(value) == {IF value THEN "true" ELSE "false", "err"}

\* The call returns `res`; the change stream it holds, if any, is dropped.
Return(c, res) ==
    /\ history' = Append(history, [c EXCEPT !.res = res])
    /\ call' = NoCall
    /\ dpc' = "idle"
    /\ subscribed' = FALSE

\* connect() or gatt_services() is called; both start with is_connected().
dev_call(op) ==
    /\ dpc = "idle"
    /\ Len(history) < MaxCalls
    /\ call' = [NoCall EXCEPT !.op = op]
    /\ dpc' = "is_connected"
    /\ UNCHANGED <<devBusVars, subscribed, history, nonDevVars>>

\* Faulty variant of connect_check: Connect is called even when the device
\* is connected.
connect_check_always_calls(answer) ==
    IF answer = "err" THEN "Err" ELSE "call"

\* connect, lines 181-185: what follows the answer of is_connected().
connect_check(answer) ==
    IF answer = "err" THEN "Err"
    ELSE IF answer = "true" THEN "Ok"
    ELSE "call"

\* connect, lines 181-185: is_connected() answers; the call returns or sends
\* Connect to the bus.
connect_is_connected(answer) ==
    /\ dpc = "is_connected" /\ call.op = "connect"
    /\ LET c == [call EXCEPT !.first = answer]
       IN  IF connect_check(answer) = "call"
           THEN /\ call' = [c EXCEPT !.calls = @ + 1]
                /\ dpc' = "connect"
                /\ UNCHANGED <<history, subscribed>>
           ELSE Return(c, connect_check(answer))
    /\ UNCHANGED <<devBusVars, nonDevVars>>

\* connect, lines 185-186: Connect succeeded, the device is connected.
connect_ok ==
    /\ dpc = "connect"
    /\ connected' = TRUE
    /\ Return(call, "Ok")
    /\ UNCHANGED <<services_resolved, resolved_changed, resolved_ended, nDevEvents,
                   nonDevVars>>

\* connect, lines 187-189: Connect failed; is_connected() is asked again.
connect_err ==
    /\ dpc = "connect"
    /\ dpc' = "recheck"
    /\ UNCHANGED <<devBusVars, subscribed, call, history, nonDevVars>>

\* Faulty variant of connect_recheck: a failed status query counts as
\* connected.
connect_recheck_trusting(answer) ==
    /\ dpc = "recheck"
    /\ Return([call EXCEPT !.recheck = answer],
              IF answer # "false" THEN "Ok" ELSE "ConnectErr")
    /\ UNCHANGED <<devBusVars, nonDevVars>>

\* connect, lines 189-193: Ok if the device is connected after all, the
\* error of Connect otherwise.
connect_recheck(answer) ==
    /\ dpc = "recheck"
    /\ Return([call EXCEPT !.recheck = answer],
              IF answer = "true" THEN "Ok" ELSE "ConnectErr")
    /\ UNCHANGED <<devBusVars, nonDevVars>>

\* Faulty variant of gatt_check: the connected state is not looked at.
gatt_check_unchecked(answer) ==
    IF answer = "err" THEN "Err" ELSE "subscribe"

\* wait_services_resolved, lines 146-150: what follows the answer of
\* is_connected().
gatt_check(answer) ==
    IF answer = "err" THEN "Err"
    ELSE IF answer = "false" THEN "Disconnected"
    ELSE "subscribe"

\* wait_services_resolved, lines 146-148.
gatt_is_connected(answer) ==
    /\ dpc = "is_connected" /\ call.op = "gatt_services"
    /\ LET c == [call EXCEPT !.first = answer]
       IN  IF gatt_check(answer) = "subscribe"
           THEN /\ call' = c
                /\ dpc' = "subscribe"
                /\ UNCHANGED <<history, subscribed>>
           ELSE Return(c, gatt_check(answer))
    /\ UNCHANGED <<devBusVars, nonDevVars>>

\* Faulty variant of gatt_subscribe: no change stream is opened before the
\* current value is read.
gatt_subscribe_skipped ==
    /\ dpc = "subscribe"
    /\ dpc' = "services_resolved"
    /\ UNCHANGED <<devBusVars, subscribed, call, history, nonDevVars>>

\* wait_services_resolved, line 150: the change stream is opened.
gatt_subscribe ==
    /\ dpc = "subscribe"
    /\ subscribed' = TRUE
    /\ resolved_changed' = FALSE
    /\ resolved_ended' = FALSE
    /\ dpc' = "services_resolved"
    /\ UNCHANGED <<connected, services_resolved, nDevEvents, call, history, nonDevVars>>

\* What follows a value of ServicesResolved read by the call (lines 151-154
\* and 160-163): an error, the enumeration, or the wait for a change.
resolved_check(answer) ==
    IF answer = "err" THEN "Err"
    ELSE IF answer = "true" THEN "enumerate"
    ELSE "wait"

\* wait_services_resolved, lines 151-156: the current value is read.
gatt_services_resolved(answer) ==
    /\ dpc = "services_resolved"
    /\ IF resolved_check(answer) = "Err"
       THEN Return(call, "Err")
       ELSE /\ call' = [call EXCEPT !.seen = (answer = "true")]
            /\ dpc' = resolved_check(answer)
            /\ UNCHANGED <<history, subscribed>>
    /\ UNCHANGED <<devBusVars, nonDevVars>>

\* wait_services_resolved, lines 157-164: the stream yields a change and
\* its value is read.
gatt_change(answer) ==
    /\ dpc = "wait"
    /\ resolved_changed
    /\ resolved_changed' = FALSE
    /\ IF resolved_check(answer) = "Err"
       THEN Return(call, "Err")
       ELSE /\ call' = [call EXCEPT !.seen = (answer = "true")]
            /\ dpc' = resolved_check(answer)
            /\ UNCHANGED <<history, subscribed>>
    /\ UNCHANGED <<connected, services_resolved, resolved_ended, nDevEvents, nonDevVars>>

\* wait_services_resolved, lines 166-167: the stream has ended.
gatt_stream_ended ==
    /\ dpc = "wait"
    /\ ~resolved_changed
    /\ resolved_ended
    /\ Return(call, "Unresolved")
    /\ UNCHANGED <<devBusVars, nonDevVars>>

\* gatt_services, lines 122-142: the managed objects are fetched (or the
\* fetch fails) and a Service is built for every GATT service object below
\* the device's path; `ok` are the objects whose Service::new succeeds.
gatt_enumerate(fetched, ok) ==
    /\ dpc = "enumerate"
    /\ IF ~fetched
       THEN Return(call, "Err")
       ELSE Return([call EXCEPT
                      !.enumerated = TRUE,
                      !.services = {o.path : o \in {x \in ok :
                                       /\ starts_with(x.path, PathA)
                                       /\ GattIface \in x.ifaces}}],
                   "Ok")
    /\ UNCHANGED <<devBusVars, nonDevVars>>

\* The bus: the device gets connected by someone else.
dev_connected ==
    /\ nDevEvents < MaxDevEvents
    /\ ~connected
    /\ connected' = TRUE
    /\ nDevEvents' = nDevEvents + 1
    /\ UNCHANGED <<services_resolved, resolved_changed, resolved_ended, subscribed,
                   dpc, call, history, nonDevVars>>

\* The bus: the device disconnects; its services are no longer resolved.
dev_disconnected ==
    /\ nDevEvents < MaxDevEvents
    /\ connected
    /\ connected' = FALSE
    /\ services_resolved' = FALSE
    /\ resolved_changed' =
           (resolved_changed \/ (subscribed /\ ~resolved_ended /\ services_resolved))
    /\ nDevEvents' = nDevEvents + 1
    /\ UNCHANGED <<resolved_ended, subscribed, dpc, call, history, nonDevVars>>

\* The bus: service discovery on the connected device completes.
dev_resolved ==
    /\ nDevEvents < MaxDevEvents
    /\ connected /\ ~services_resolved
    /\ services_resolved' = TRUE
    /\ resolved_changed' = (resolved_changed \/ (subscribed /\ ~resolved_ended))
    /\ nDevEvents' = nDevEvents + 1
    /\ UNCHANGED <<connected, resolved_ended, subscribed, dpc, call, history, nonDevVars>>

\* The bus: the change stream of the call ends.
dev_stream_ended ==
    /\ nDevEvents < MaxDevEvents
    /\ subscribed /\ ~resolved_ended
    /\ resolved_ended' = TRUE
    /\ nDevEvents' = nDevEvents + 1
    /\ UNCHANGED <<connected, services_resolved, resolved_changed, subscribed,
                   dpc, call, history, nonDevVars>>

NextDev ==
    \/ \E op \in {"connect", "gatt_services"} : dev_call(op)
    \/ \E answer \in Read(connected) : connect_is_connected(answer)
    \/ connect_ok
    \/ connect_err
    \/ \E answer \in Read(connected) : connect_recheck(answer)
    \/ \E answer \in Read(connected) : gatt_is_connected(answer)
    \/ gatt_subscribe
    \/ \E answer \in Read(services_resolved) : gatt_services_resolved(answer)
    \/ \E answer \in Read(services_resolved) : gatt_change(answer)
    \/ gatt_stream_ended
    \/ \E fetched \in BOOLEAN, ok \in SUBSET objects : gatt_enumerate(fetched, ok)
    \/ dev_connected
    \/ dev_disconnected
    \/ dev_resolved
    \/ dev_stream_ended

SpecDev == InitDev /\ [][NextDev]_vars

\* The steps of a call of connect() or gatt_services() once it is made: the
\* executor keeps polling its future.
DevProgram ==
    \/ \E answer \in Read(connected) : connect_is_connected(answer)
    \/ connect_ok
    \/ connect_err
    \/ \E answer \in Read(connected) : connect_recheck(answer)
    \/ \E answer \in Read(connected) : gatt_is_connected(answer)
    \/ gatt_subscribe
    \/ \E answer \in Read(services_resolved) : gatt_services_resolved(answer)
    \/ \E answer \in Read(services_resolved) : gatt_change(answer)
    \/ gatt_stream_ended
    \/ \E fetched \in BOOLEAN, ok \in SUBSET objects : gatt_enumerate(fetched, ok)

SpecDevFair == InitDev /\ [][NextDev]_vars /\ WF_vars(DevProgram)


\* ---------------------------- SpecAddr: Address::from_str and Display
\* Strings are sequences of one-character strings.
\* How many groups an input may have more or fewer than six.
MaxExtra == 1

\* struct Address([u8; 6])
AddrLen == 6

UpperHex == <<"0", "1", "2", "3", "4", "5", "6", "7", "8", "9", "A", "B", "C", "D", "E", "F">>
LowerHex == <<"0", "1", "2", "3", "4", "5", "6", "7", "8", "9", "a", "b", "c", "d", "e", "f">>
Radix == Len(UpperHex)

\* char::to_digit(16): the digit's value, -1 for None.
to_digit(c) ==
    IF \E i \in 1..Radix : UpperHex[i] = c \/ LowerHex[i] = c
    THEN (CHOOSE i \in 1..Radix : UpperHex[i] = c \/ LowerHex[i] = c) - 1
    ELSE -1

\* The digit loop of u8::from_str_radix: -1 for InvalidDigit or PosOverflow.
RECURSIVE digits_value(_, _)
digits_value(digits, acc) ==
    IF digits = <<>> THEN acc
    ELSE LET d == to_digit(Head(digits))
             v == acc * Radix + d
         IN  IF d = -1 \/ v >= Radix * Radix THEN -1
             ELSE digits_value(Tail(digits), v)

\* u8::from_str_radix(src, 16): a leading "+" is accepted, "-" is not a
\* digit of an unsigned type; -1 for an error.
u8_from_str_radix(src) ==
    IF src = <<>> THEN -1
    ELSE IF Head(src) \in {"+", "-"} /\ Len(src) = 1 THEN -1
    ELSE digits_value(IF Head(src) = "+" THEN Tail(src) ELSE src, 0)

\* str::splitn(n, ':'): at most n parts, the last one holding the rest.
RECURSIVE splitn(_, _)
splitn(str, n) ==
    IF n = 1 \/ ~(\E i \in 1..Len(str) : str[i] = ":") THEN <<str>>
    ELSE LET i == CHOOSE i \in 1..Len(str) :
                      str[i] = ":" /\ \A j \in 1..(i - 1) : str[j] # ":"
         IN  <<SubSeq(str, 1, i - 1)>> \o splitn(SubSeq(str, i + 1, Len(str)), n - 1)

\* The loop of Address::from_str (lines 105-113) from its i-th iteration on,
\* and the Err after it (line 115).
RECURSIVE parse_parts(_, _, _)
parse_parts(parts, i, bytes) ==
    IF parts = <<>> THEN [res |-> "Other", bytes |-> <<>>]
    ELSE LET part == Head(parts)
             byte == u8_from_str_radix(part)
         IN  IF Len(part) # 2 THEN [res |-> "Other", bytes |-> <<>>]
             ELSE IF byte = -1 THEN [res |-> "ParseInt", bytes |-> <<>>]
             ELSE IF i = AddrLen - 1
                  THEN [res |-> "Ok", bytes |-> [bytes EXCEPT ![i + 1] = byte]]
                  ELSE parse_parts(Tail(parts), i + 1, [bytes EXCEPT ![i + 1] = byte])

\* impl FromStr for Address
Address_from_str(str) ==
    parse_parts(splitn(str, AddrLen), 0, [i \in 1..AddrLen |-> 0])

\* Faulty variant of fmt_byte: "{:X}", no padding to two digits.
fmt_byte_unpadded(byte) ==
    IF byte < Radix THEN <<UpperHex[byte + 1]>>
    ELSE <<UpperHex[(byte \div Radix) + 1], UpperHex[(byte % Radix) + 1]>>

\* write!(f, "{:02X}", byte)
fmt_byte(byte) ==
    <<UpperHex[(byte \div Radix) + 1], UpperHex[(byte % Radix) + 1]>>

\* impl fmt::Display for Address
RECURSIVE Address_fmt(_, _)
Address_fmt(bytes, i) ==
    IF i >= Len(bytes) THEN <<>>
    ELSE (IF i # 0 THEN <<":">> ELSE <<>>) \o fmt_byte(bytes[i + 1])
             \o Address_fmt(bytes, i + 1)

\* The groups of the address of the tests (line 156), repeated as needed.
BaseGroup(k) ==
    LET base == << <<"A", "A">>, <<"B", "B">>, <<"C", "C">>,
                   <<"1", "1">>, <<"2", "2">>, <<"3", "3">> >>
    IN  base[((k - 1) % AddrLen) + 1]

\* Every group of two uppercase hexadecimal digits.
UpperGroups == {<<a, b>> : a \in {UpperHex[i] : i \in 1..Radix},
                           b \in {UpperHex[i] : i \in 1..Radix}}

\* Groups that are not two uppercase hexadecimal digits.
OtherGroups ==
    { <<"a", "f">>, <<"+", "A">>, <<"-", "A">>, <<"G", "0">>, <<"z", "a">>,
      <<"3", " ">>, <<"1">>, <<"1", "2", "3">>, <<>> }

RECURSIVE Join(_)
Join(groups) ==
    IF groups = <<>> THEN <<>>
    ELSE IF Len(groups) = 1 THEN groups[1]
    ELSE groups[1] \o <<":">> \o Join(Tail(groups))

\* The strings given to from_str: the empty string, and the test's address
\* cut or extended to n groups with any one group replaced.
AddrInputs ==
    {<<>>} \cup
    { Join([j \in 1..n |-> IF j = k THEN g ELSE BaseGroup(j)]) :
        n \in (AddrLen - MaxExtra)..(AddrLen + MaxExtra),
        k \in 1..(AddrLen + MaxExtra),
        g \in UpperGroups \cup OtherGroups }

InitAddr ==
    /\ SetIdle
    /\ MuxIdle
    /\ DevIdle
    /\ UuidIdle
    /\ addr_in \in AddrInputs
    /\ addr_res = NoAddr
    /\ addr_text = <<>>

nonAddrVars == <<busVars, setVars, callVars, histVars, muxVars, devVars, uuidVars>>

\* s.parse::<Address>()
addr_parse ==
    /\ addr_res = NoAddr
    /\ addr_res' = Address_from_str(addr_in)
    /\ UNCHANGED <<addr_in, addr_text, nonAddrVars>>

\* addr.to_string()
addr_to_string ==
    /\ addr_res.res = "Ok"
    /\ addr_text = <<>>
    /\ addr_text' = Address_fmt(addr_res.bytes, 0)
    /\ UNCHANGED <<addr_in, addr_res, nonAddrVars>>

NextAddr ==
    \/ addr_parse
    \/ addr_to_string

SpecAddr == InitAddr /\ [][NextAddr]_vars


\* ------------------------------- SpecUuid: Uuid::from_str and Display
\* struct Uuid([u8; 16])
UuidLen == 16

\* cvt_nibble: the three arms of its match, -1 for Err(InvalidDigit).
cvt_nibble(digit) ==
    LET Digits == <<"0", "1", "2", "3", "4", "5", "6", "7", "8", "9">>
        Lower == <<"a", "b", "c", "d", "e", "f">>
        Upper == <<"A", "B", "C", "D", "E", "F">>
    IN  IF \E k \in 1..Len(Digits) : Digits[k] = digit
        THEN (CHOOSE k \in 1..Len(Digits) : Digits[k] = digit) - 1
        ELSE IF \E k \in 1..Len(Lower) : Lower[k] = digit
        THEN (CHOOSE k \in 1..Len(Lower) : Lower[k] = digit) - 1 + 10
        ELSE IF \E k \in 1..Len(Upper) : Upper[k] = digit
        THEN (CHOOSE k \in 1..Len(Upper) : Upper[k] = digit) - 1 + 10
        ELSE -1

\* macro next_byte!: two hex digits of `in` from offset i on.
next_byte(in, i) ==
    IF i >= Len(in) THEN [err |-> "Eof", val |-> 0, i |-> i]
    ELSE LET high == cvt_nibble(in[i + 1])
         IN  IF high = -1 THEN [err |-> "InvalidDigit", val |-> 0, i |-> i]
             ELSE IF i + 1 >= Len(in) THEN [err |-> "Eof", val |-> 0, i |-> i + 1]
             ELSE LET low == cvt_nibble(in[i + 2])
                  IN  IF low = -1 THEN [err |-> "InvalidDigit", val |-> 0, i |-> i + 1]
                      ELSE [err |-> "none", val |-> high * 16 + low, i |-> i + 2]

\* macro dash!: a "-" of `in` at offset i.
dash(in, i) ==
    IF i >= Len(in) THEN [err |-> "Eof", i |-> i]
    ELSE IF in[i + 1] # "-" THEN [err |-> "InvalidDash", i |-> i]
    ELSE [err |-> "none", i |-> i + 1]

\* The macro calls of Uuid::from_str in order (lines 83-102).
UuidLayout ==
    <<"byte", "byte", "byte", "byte", "dash", "byte", "byte", "dash",
      "byte", "byte", "dash", "byte", "byte", "dash",
      "byte", "byte", "byte", "byte", "byte", "byte">>

\* Uuid::from_str from its k-th macro call on, and the test after the last.
RECURSIVE uuid_parse(_, _, _, _)
uuid_parse(bytes, i, k, out) ==
    IF k > Len(UuidLayout)
    THEN IF i # Len(bytes) THEN [res |-> "TrailingData", bytes |-> <<>>]
         ELSE [res |-> "Ok", bytes |-> out]
    ELSE IF UuidLayout[k] = "dash"
    THEN LET d == dash(bytes, i)
         IN  IF d.err # "none" THEN [res |-> d.err, bytes |-> <<>>]
             ELSE uuid_parse(bytes, d.i, k + 1, out)
    ELSE LET b == next_byte(bytes, i)
         IN  IF b.err # "none" THEN [res |-> b.err, bytes |-> <<>>]
             ELSE uuid_parse(bytes, b.i, k + 1, Append(out, b.val))

\* Uuid::from_str
Uuid_from_str(s) == uuid_parse(s, 0, 1, <<>>)

\* Faulty variant of fmt_byte_lower: "{:02X}", uppercase digits.
fmt_byte_lower_as_upper(byte) ==
    <<UpperHex[(byte \div 16) + 1], UpperHex[(byte % 16) + 1]>>

\* write!(f, "{:02x}", byte)
fmt_byte_lower(byte) ==
    <<LowerHex[(byte \div 16) + 1], LowerHex[(byte % 16) + 1]>>

\* impl fmt::Display for Uuid: the format string of line 143.
Uuid_fmt(bytes) ==
    LET x(k) == fmt_byte_lower(bytes[k])
    IN  x(1) \o x(2) \o x(3) \o x(4) \o <<"-">> \o x(5) \o x(6) \o <<"-">>
          \o x(7) \o x(8) \o <<"-">> \o x(9) \o x(10) \o <<"-">>
          \o x(11) \o x(12) \o x(13) \o x(14) \o x(15) \o x(16)

\* Uuid::BASE (line 19) as its sixteen groups, repeated as needed.
UuidBaseGroup(k) ==
    LET base == << <<"0", "0">>, <<"0", "0">>, <<"0", "0">>, <<"0", "0">>,
                   <<"0", "0">>, <<"0", "0">>, <<"1", "0">>, <<"0", "0">>,
                   <<"8", "0">>, <<"0", "0">>, <<"0", "0">>, <<"8", "0">>,
                   <<"5", "f">>, <<"9", "b">>, <<"3", "4">>, <<"f", "b">> >>
    IN  base[((k - 1) % UuidLen) + 1]

\* Every group of two lowercase hexadecimal digits.
LowerGroups == {<<a, b>> : a \in {LowerHex[i] : i \in 1..Radix},
                           b \in {LowerHex[i] : i \in 1..Radix}}

\* Groups that are not two lowercase hexadecimal digits.
OtherUuidGroups ==
    { <<"A", "F">>, <<"g", "0">>, <<"-", "a">>, <<"7", " ">>, <<"1">>,
      <<"1", "2", "3">>, <<>> }

\* The groups written 8-4-4-4-12: a "-" after the 4th, 6th, 8th and 10th.
RECURSIVE UuidJoin(_, _)
UuidJoin(groups, k) ==
    IF k > Len(groups) THEN <<>>
    ELSE groups[k] \o (IF k \in {4, 6, 8, 10} /\ k < Len(groups) THEN <<"-">> ELSE <<>>)
             \o UuidJoin(groups, k + 1)

\* The strings given to from_str: the empty string, and the base UUID cut
\* or extended to n groups with any one group replaced.
UuidInputs ==
    {<<>>} \cup
    { UuidJoin([j \in 1..n |-> IF j = k THEN g ELSE UuidBaseGroup(j)], 1) :
        n \in (UuidLen - MaxExtra)..(UuidLen + MaxExtra),
        k \in 1..(UuidLen + MaxExtra),
        g \in LowerGroups \cup OtherUuidGroups }

InitUuid ==
    /\ SetIdle
    /\ MuxIdle
    /\ DevIdle
    /\ AddrIdle
    /\ uuid_in \in UuidInputs
    /\ uuid_res = NoUuid
    /\ uuid_text = <<>>

nonUuidVars == <<busVars, setVars, callVars, histVars, muxVars, devVars, addrVars>>

\* s.parse::<Uuid>()
uuid_parse_call ==
    /\ uuid_res = NoUuid
    /\ uuid_res' = Uuid_from_str(uuid_in)
    /\ UNCHANGED <<uuid_in, uuid_text, nonUuidVars>>

\* uuid.to_string()
uuid_to_string ==
    /\ uuid_res.res = "Ok"
    /\ uuid_text = <<>>
    /\ uuid_text' = Uuid_fmt(uuid_res.bytes)
    /\ UNCHANGED <<uuid_in, uuid_res, nonUuidVars>>

NextUuid ==
    \/ uuid_parse_call
    \/ uuid_to_string

SpecUuid == InitUuid /\ [][NextUuid]_vars


\* ================================================================ claims
\* change() has just returned kind k (ret is reset when a call starts).
ChangeReturns(k) == ret.kind = "None" /\ ret'.kind = k

\* C1: every device next() returns has a path whose last add/remove signal
\* taken from the subscription was not a removal: a path that was removed
\* and not added again is never yielded.
C1_NeverYieldsRemoved ==
    (pc = "idle" /\ ret.kind \in {"Replay", "Added", "Changed"}) => ret.path \notin gone

\* C2: the first N next() calls of a stream built over N devices return each
\* of those devices once, in any order, all of them from the replay buffer:
\* no device of a live modification is returned among them.
C2_ReplayCompleteness ==
    /\ Len(firstYields) <= Len(initial)
    /\ \A k \in 1..Len(firstYields) :
         /\ firstYields[k].src = "replay"
         /\ \E i \in 1..Len(initial) : initial[i].path = firstYields[k].path
         /\ \A j \in 1..Len(firstYields) :
              j # k => firstYields[j].path # firstYields[k].path

\* C2 witness: both devices of a two-device set were replayed and a live
\* Added or Changed has since been returned.
C2_Witness ==
    /\ Len(initial) = 2
    /\ Len(firstYields) = 2
    /\ pc = "idle"
    /\ ret.kind \in {"Added", "Changed"}

\* C3: once the add/remove subscription has ended (closed, nothing queued,
\* no signal in flight), no change() call returns Added, Removed or Changed.
C3_TerminalPropagation ==
    [][(stream_ended /\ added_removed_stream = <<>> /\ pending_fut = NoFut)
          => ~(\E k \in {"Added", "Removed", "Changed"} : ChangeReturns(k))]_vars

\* C4: an add signal already taken from the subscription, whose device is
\* still being constructed when a property change wins the race, stays
\* pending (in flight, or back at the head of the subscription) for a later
\* change() call.
C4_PendingAddSurvives ==
    [][(pending_fut # NoFut /\ ChangeReturns("Changed"))
          => \/ pending_fut' = pending_fut
             \/ /\ added_removed_stream' # <<>>
                /\ Head(added_removed_stream').kind = "InterfacesAdded"
                /\ Head(added_removed_stream').object_path = pending_fut.path]_vars

\* C5: dropping the suspended future of next() leaves the Device Set as it
\* was and loses nothing already consumed: devices, change_streams (with
\* their buffers) and the signal already taken are kept.
C5_CancellationSafe ==
    [][(pc = "parked" /\ pc' = "idle" /\ ret'.kind = "None")
          => /\ devices' = devices
             /\ change_streams' = change_streams
             /\ added_removed_stream' = added_removed_stream
             /\ pending_fut' = pending_fut]_vars

\* C6: devices and change_streams have the same length and change_streams[i]
\* is subscribed to the path of devices[i], in every reachable state.
C6_ParallelSequences ==
    /\ Len(devices) = Len(change_streams)
    /\ \A i \in 1..Len(devices) : change_streams[i].path = devices[i].path

\* C6 witness: a Remove was applied to a set of three devices.
C6_Witness ==
    /\ ret.kind = "Removed"
    /\ Len(devices) = 2
    /\ Len(change_streams) = 2

\* C7: no two entries of devices have the same path.
C7_NoDuplicatePaths ==
    \A i, j \in 1..Len(devices) : i # j => devices[i].path # devices[j].path

\* C8: taking a remove signal for a path that is not in the set changes
\* neither devices nor change_streams, makes change() neither return nor
\* fail, and leaves it polling its sources.
C8_UnknownRemovalIsNoOp ==
    [][(/\ TakesSignal
        /\ Head(added_removed_stream).kind = "InterfacesRemoved"
        /\ \A i \in 1..Len(devices) :
             devices[i].path # Head(added_removed_stream).object_path
        /\ added_removed_stream' = Tail(added_removed_stream))
          => /\ devices' = devices
             /\ change_streams' = change_streams
             /\ ret' = ret
             /\ pc' = "left"]_vars

\* C8 witness: a remove signal for a device path that is not in the set was
\* just taken, while the set holds a device.
C8_Witness ==
    /\ note = "unknown device"
    /\ pc = "left"
    /\ devices # <<>>

\* C9: when Device::new or property_change_stream fails for an add signal,
\* change() does not return (no error, no Added), the collections are
\* unchanged, the signal is dropped and the poll goes on.
C9_FailedAddIsSkipped ==
    [][(pc = "left" /\ pending_fut.reply = "err")
          => /\ devices' = devices
             /\ change_streams' = change_streams
             /\ ret' = ret
             /\ pc' = "left"
             /\ pending_fut' = NoFut]_vars

\* C9 witness: property_change_stream just failed for an added device and
\* change() is still polling.
C9_Witness ==
    /\ note = "failed to listen"
    /\ pc = "left"
    /\ ret.kind = "None"

\* C10: every name of the interest set that a notification carries (changed
\* or invalidated, counted as often as it is carried) is returned by exactly
\* one wait(), and wait() suspends or fails only when every carried name has
\* been returned.
InBuffer(n) == Count(mux.change_buffer, n)

RECURSIVE InStream(_, _)
InStream(stream, n) ==
    IF stream = <<>> THEN 0
    ELSE (IF n \in mux.interest THEN Count(Names(Head(stream)), RawOf(n)) ELSE 0)
             + InStream(Tail(stream), n)

C10_Draining ==
    /\ [](\A n \in PropertyName :
            returned[n] + InBuffer(n) + InStream(mux.stream, n) = notified[n])
    /\ [][(mret' \in {"Pending", "Err"} /\ (mux' # mux \/ mret' # mret \/ mpc' # mpc)
             /\ nNotify' = nNotify /\ mux'.ended = mux.ended)
             => returned' = notified']_vars

\* C10 witness: one notification carried three names of interest, three
\* wait() calls returned them and the fourth is suspended.
C10_Witness ==
    /\ nNotify = 1
    /\ returned["Alias"] = 1 /\ returned["Rssi"] = 1 /\ returned["ServiceUuids"] = 1
    /\ mpc = "waiting"
    /\ mux.stream = <<>>

\* C11: when a Remove is applied, every other entry of the set stays in it
\* with its own multiplexer; every Changed carries the device whose own
\* multiplexer gave the name; and after the removal of a path (not added
\* again) no Added or Changed is returned for that path.
C11_RemainingTracked ==
    /\ [][ChangeReturns("Removed")
            => LET i == position(devices, ret'.path)
               IN  \A j \in (1..Len(devices)) \ {i} :
                     \E k \in 1..Len(devices') :
                        /\ devices'[k] = devices[j]
                        /\ change_streams'[k] = change_streams[j]]_vars
    /\ [][ChangeReturns("Changed")
            => \E i \in 1..Len(devices) :
                  /\ devices[i].path = ret'.path
                  /\ change_streams[i].path = ret'.path
                  /\ change_streams'[i] # change_streams[i]
                  /\ \A j \in (1..Len(devices)) \ {i} :
                        change_streams'[j] = change_streams[j]]_vars
    /\ []((pc = "idle" /\ ret.kind \in {"Added", "Changed"}) => ret.path \notin gone)

\* C12: with next() awaited again and again, (a) a name of interest pending
\* on the multiplexer of a tracked device is eventually reported as Changed
\* for that device, unless the device is removed or change() fails; (b) a
\* queued add/remove signal is eventually taken, and an add signal taken is
\* eventually resolved: Added is returned for it, or its device is skipped
\* because of a construction failure.
HasPending(c) ==
    \/ c.change_buffer # <<>>
    \/ \E k \in 1..Len(c.stream) :
          Pushes(Names(c.stream[k]), <<>>, c.interest) # <<>>

DevicePaths == {o.path : o \in BusObjects}

C12_NoStarvation ==
    /\ \A p \in DevicePaths :
          (\E i \in 1..Len(change_streams) :
              change_streams[i].path = p /\ HasPending(change_streams[i]))
            ~> \/ ret.kind \in {"Changed", "Removed"} /\ ret.path = p
               \/ ret.kind = "Err"
    /\ (added_removed_stream # <<>>) ~> (added_removed_stream = <<>>)
    /\ \A p \in DevicePaths :
          (pending_fut.path = p)
            ~> \/ ret.kind = "Added" /\ ret.path = p
               \/ note \in {"skipping device", "failed to listen"}

\* C13: with next() awaited again and again, once the add/remove
\* subscription has ended a call of change() fails with the terminal error:
\* the caller is not left waiting on the multiplexers of the tracked devices.
C13_EndedSubscriptionFails ==
    stream_ended ~> (ret.kind = "Err")

\* A poll of the future of wait() has just run (it returned a name, failed
\* or suspended).
WaitPollStep ==
    /\ nNotify' = nNotify
    /\ mux'.ended = mux.ended
    /\ \/ returned' # returned
       \/ nErr' # nErr
       \/ mpc' = "waiting" /\ (mpc = "idle" \/ mux' # mux)

\* C14: a wait() that finds the notification channel ended, with nothing
\* left to return, fails; once wait() has failed on the ended channel
\* nothing is left in the stream or the buffer, every later wait() fails
\* too and none returns a name.
C14_FailurePermanent ==
    /\ [][(WaitPollStep /\ mux.ended /\ mux.stream = <<>> /\ mux.change_buffer = <<>>)
            => mret' = "Err"]_vars
    /\ []((mret = "Err" /\ mux.ended) => (mux.stream = <<>> /\ mux.change_buffer = <<>>))
    /\ [][(mret = "Err" /\ mux.ended) => (mret' = "Err" /\ returned' = returned)]_vars

\* C14 witness: wait() returned a name, the channel ended, and wait() has
\* failed on every one of the calls made since.
C14_Witness ==
    /\ nErr = MaxFailed
    /\ mret = "Err"
    /\ returned["Alias"] = 1

\* C15: every name wait() returns is in the interest set; and a poll of
\* wait() that finds nothing buffered and only notifications without a name
\* of the interest set takes them all and returns no name: it suspends (or
\* fails when the channel has ended).
C15_OnlyInterest ==
    /\ [](mret \in PropertyName => mret \in mux.interest)
    /\ [][(/\ WaitPollStep
           /\ mux.change_buffer = <<>>
           /\ \A n \in PropertyName : InStream(mux.stream, n) = 0)
            => /\ returned' = returned
               /\ mux'.stream = <<>>
               /\ mret' = IF mux.ended THEN "Err" ELSE "Pending"]_vars

\* C15 witness: a multiplexer interested in Alias and ServiceUuids took two
\* notifications naming only properties outside its interest set and is
\* still suspended, having returned nothing.
C15_Witness ==
    /\ mux.interest = {"Alias", "ServiceUuids"}
    /\ nNotify >= 2
    /\ mux.stream = <<>>
    /\ mpc = "waiting"
    /\ \A n \in PropertyName : returned[n] = 0 /\ notified[n] = 0

\* The multiplexer holds a change of the display alias or of the advertised
\* service list: buffered, or carried by a notification not yet taken.
CarriesListened(c) ==
    \/ \E k \in 1..Len(c.change_buffer) : c.change_buffer[k] \in {"Alias", "ServiceUuids"}
    \/ \E k \in 1..Len(c.stream) :
          \/ c.stream[k].changed_properties \cap {"Alias", "UUIDs"} # {}
          \/ \E j \in 1..Len(c.stream[k].invalidated_properties) :
                c.stream[k].invalidated_properties[j] \in {"Alias", "UUIDs"}

\* C16: every multiplexer of the set listens to Alias and ServiceUuids only;
\* every Changed carries one of the two and comes from a multiplexer that
\* held such a change; and a poll of the multiplexers that finds only
\* notifications of other properties (signal strength, connection state)
\* makes change() return nothing.
C16_ListensToAliasAndUuids ==
    /\ [](/\ \A i \in 1..Len(change_streams) :
               change_streams[i].interest = {"Alias", "ServiceUuids"}
          /\ ret.kind = "Changed" => ret.prop \in {"Alias", "ServiceUuids"})
    /\ [][ChangeReturns("Changed")
            => \E i \in 1..Len(devices) :
                  devices[i].path = ret'.path /\ CarriesListened(change_streams[i])]_vars
    /\ [][(/\ pc = "right"
           /\ \A i \in Remaining : ~CarriesListened(change_streams[i]))
            => /\ ret'.kind \notin {"Added", "Removed", "Changed"}
               /\ \A i \in Remaining : change_streams'[i].stream = <<>>]_vars

\* C16 witness: the suspended call was woken by a notification alone (no
\* signal, no reply, no stream ended), polled the multiplexers first, took
\* the notification, which named signal strength and connection state only,
\* and went on to poll the subscription without returning.
C16_Witness ==
    /\ pc = "left" /\ second
    /\ ret.kind = "None"
    /\ pending_fut = NoFut
    /\ added_removed_stream = <<>> /\ ~stream_ended
    /\ devices # <<>>
    /\ done = {}
    /\ \A i \in 1..Len(change_streams) :
          /\ ~change_streams[i].ended
          /\ change_streams[i].stream = <<>>
          /\ change_streams[i].change_buffer = <<>>

\* C17: when change() fails, next() has returned: the error is its result,
\* no device is yielded or replayed with it, the set is not touched and
\* change() is not called again by the same next().
C17_ErrorPropagates ==
    /\ [](ret.kind = "Err" => pc = "idle")
    /\ [][(ret'.kind = "Err" /\ ret.kind # "Err")
            => /\ pc \in {"left", "right"}
               /\ firstYields' = firstYields
               /\ devices' = devices
               /\ to_yield' = to_yield]_vars

\* C17 witness: every device of the set was replayed, then change() failed
\* while devices were still tracked, and next() has returned the error.
C17_Witness ==
    /\ ret.kind = "Err"
    /\ pc = "idle"
    /\ devices # <<>>
    /\ Len(firstYields) = Len(initial)

\* C18: a connect() whose is_connected() found the device connected has
\* returned Ok and has sent no Connect to the bus.
C18_ConnectedIsNoOp ==
    \A k \in 1..Len(history) :
        (history[k].op = "connect" /\ history[k].first = "true")
          => (history[k].res = "Ok" /\ history[k].calls = 0)

\* C18 witness: connect() was called on the connected device and returned.
C18_Witness ==
    \E k \in 1..Len(history) :
        /\ history[k].op = "connect"
        /\ history[k].first = "true"
        /\ history[k].res = "Ok"

\* C19: a gatt_services() whose is_connected() found the device not
\* connected has returned the error for a disconnected device without
\* fetching the managed objects; the objects are fetched, and a service list
\* is returned, only by a call that found the device connected and then read
\* ServicesResolved as true.
C19_GattServicesNeedsConnection ==
    /\ \A k \in 1..Len(history) :
          history[k].op = "gatt_services"
            => /\ history[k].first = "false"
                    => /\ history[k].res = "Disconnected"
                       /\ ~history[k].enumerated
                       /\ history[k].services = {}
               /\ (history[k].res = "Ok" \/ history[k].enumerated)
                    => (history[k].first = "true" /\ history[k].seen)
    /\ dpc = "enumerate" => (call.first = "true" /\ call.seen)

\* C19 witness: one gatt_services() was refused because the device was not
\* connected, another one returned a service after ServicesResolved was
\* read as true.
C19_Witness ==
    /\ \E k \in 1..Len(history) :
          history[k].op = "gatt_services" /\ history[k].res = "Disconnected"
    /\ \E k \in 1..Len(history) :
          /\ history[k].op = "gatt_services"
          /\ history[k].res = "Ok"
          /\ history[k].services = {PathS}

\* Six groups of two uppercase hexadecimal digits, separated by colons.
UpperAddress(str) ==
    /\ Len(str) = 3 * AddrLen - 1
    /\ \A i \in 1..Len(str) :
          IF i % 3 = 0 THEN str[i] = ":"
          ELSE \E d \in 1..Radix : str[i] = UpperHex[d]

\* C20: for a string of six colon-separated groups of two uppercase
\* hexadecimal digits, from_str succeeds and the Display output of the
\* parsed address is the string itself.
C20_AddressRoundTrip ==
    UpperAddress(addr_in)
      => /\ addr_res.res \in {"none", "Ok"}
         /\ addr_text # <<>> => addr_text = addr_in

\* C20 witness: an address with a group below 0x10 and a group of letters
\* has been parsed and formatted.
C20_Witness ==
    /\ UpperAddress(addr_in)
    /\ SubSeq(addr_in, 1, 5) = <<"0", "A", ":", "B", "B">>
    /\ addr_res.res = "Ok"
    /\ addr_text = addr_in

\* Six groups of two hexadecimal digits (of either case), separated by colons.
HexAddress(str) ==
    /\ Len(str) = 3 * AddrLen - 1
    /\ \A i \in 1..Len(str) :
          IF i % 3 = 0 THEN str[i] = ":"
          ELSE \E d \in 1..Radix : str[i] = UpperHex[d] \/ str[i] = LowerHex[d]

\* C21: from_str does not succeed on a string that is not six
\* colon-separated groups of two hexadecimal digits each.
C21_RejectsMalformed ==
    ~HexAddress(addr_in) => addr_res.res # "Ok"

\* A canonical lowercase UUID string: 8-4-4-4-12 lowercase hexadecimal digits.
CanonicalUuid(str) ==
    /\ Len(str) = 2 * UuidLen + 4
    /\ \A i \in 1..Len(str) :
          IF i \in {9, 14, 19, 24} THEN str[i] = "-"
          ELSE \E d \in 1..Radix : str[i] = LowerHex[d]

\* C22: a canonical lowercase UUID string parses, and formatting the parsed
\* UUID with Display gives the string back.
C22_UuidRoundTrip ==
    CanonicalUuid(uuid_in)
      => /\ uuid_res.res \in {"none", "Ok"}
         /\ uuid_text # <<>> => uuid_text = uuid_in

\* The base UUID with its last group replaced has been parsed and formatted.
C22_Witness ==
    /\ CanonicalUuid(uuid_in)
    /\ SubSeq(uuid_in, 1, 8) = <<"0", "0", "0", "0", "0", "0", "0", "0">>
    /\ SubSeq(uuid_in, 33, 36) = <<"3", "4", "a", "e">>
    /\ uuid_res.res = "Ok"
    /\ uuid_text = uuid_in

\* C23: a multiplexer whose wait() has returned its terminal error is not
\* polled again: no poll of the wait() futures includes one of a failed
\* multiplexer.
C23_FailedNotPolledAgain ==
    [][right_none => \A i \in Remaining : ~failed[i]]_vars

\* C24: change() returns an error only when the add/remove subscription has
\* ended; a step in which Device::new or property_change_stream fails, or
\* in which a multiplexer's wait() fails while the subscription is open,
\* does not make change() return an error.
C24_ErrorOnlyWhenSubscriptionEnded ==
    /\ [](ret.kind = "Err" => stream_ended /\ added_removed_stream = <<>>)
    /\ [][((pc = "left" /\ pending_fut.reply = "err")
            \/ (pc = "right" /\ ~stream_ended
                  /\ \E i \in Remaining : Polled(i).res = "Err"))
           => ret'.kind # "Err"]_vars

\* C24 witness: change() has returned its error after the subscription ended,
\* with a device in the set whose multiplexer had failed before.
C24_Witness ==
    /\ ret.kind = "Err"
    /\ stream_ended
    /\ \E i \in 1..Len(failed) : failed[i]

\* next() returns Ok from its loop (lines 367-375).
LiveReturn == pc \in {"left", "right"} /\ pc' = "idle" /\ ret'.kind # "Err"

\* C25: with the replay buffer empty, a successful return of next() is the
\* step that applies one Added (the device appended to the set) or one
\* Changed (a device of the set, which is left as it is) and returns that
\* device; a Removed is applied to the set and next() does not return but
\* calls change() again.
C25_LiveReturnIsAddedOrChanged ==
    /\ [](ret.kind = "Removed" => pc = "looping")
    /\ [][LiveReturn
            => /\ to_yield = <<>>
               /\ ret.kind = "None"
               /\ \/ /\ ret'.kind = "Added"
                     /\ devices' = Append(devices, Device(ret'.path))
                  \/ /\ ret'.kind = "Changed"
                     /\ devices' = devices
                     /\ \E i \in 1..Len(devices) :
                          /\ devices[i].path = ret'.path
                          /\ change_streams'[i] # change_streams[i]]_vars
    /\ [][ChangeReturns("Removed")
            => /\ Len(devices') = Len(devices) - 1
               /\ to_yield' = to_yield
               /\ firstYields' = firstYields]_vars
    /\ [][pc = "looping" => pc' \in {"left", "right"} /\ ret'.kind = "None"]_vars

\* C25 witness: next() has returned the device of an Added or Changed after
\* a Removed was applied to the set it was built over.
C25_Witness ==
    /\ pc = "idle"
    /\ to_yield = <<>>
    /\ ret.kind \in {"Added", "Changed"}
    /\ gone # {}
    /\ Len(initial) = 2
    /\ Len(devices) = 1

\* C26: a step of the program taken while next() is not running and the
\* replay buffer is not empty is a next() call that returns the last
\* buffered device and shortens the buffer by one, without suspending; it
\* changes neither devices nor change_streams (with their queues and
\* buffers) nor the signal subscription, and consumes no bus event.
C26_ReplayTouchesNothing ==
    [][(pc = "idle" /\ to_yield # <<>> /\ nEvents' = nEvents)
         => /\ to_yield' = Front(to_yield)
            /\ ret' = Ret("Replay", Last(to_yield).path, NoName)
            /\ pc' = "idle"
            /\ UNCHANGED <<devices, change_streams, added_removed_stream, stream_ended,
                           objects, pending_fut, done, internal_state, poll_next>>]_vars

\* C26 witness: a device was replayed and another is still buffered, while
\* a signal and a notification are queued.
C26_Witness ==
    /\ ret.kind = "Replay"
    /\ to_yield # <<>>
    /\ added_removed_stream # <<>>
    /\ \E i \in 1..Len(change_streams) : change_streams[i].stream # <<>>

\* The path names an object below the adapter's object in the hierarchy.
Descendant(path) == starts_with(path, adapter_path \o <<"/">>)

\* C27: only objects below the adapter's path that carry the device
\* interface enter the set or are reported: every tracked device, and the
\* device of every Added or Removed, is such an object of the bus.
C27_OnlyDevicesOfAdapter ==
    LET IsDevice(path) ==
            /\ Descendant(path)
            /\ \E o \in BusObjects : o.path = path /\ DeviceIface \in o.ifaces
    IN  /\ \A i \in 1..Len(devices) : IsDevice(devices[i].path)
        /\ ret.kind \in {"Added", "Removed"} => IsDevice(ret.path)

\* C28: when change() returns Added, the device of the signal whose
\* multiplexer was just opened and a fresh multiplexer for it have been
\* appended as the last entries of devices and change_streams, the entries
\* before them are unchanged, and the device reported is that last entry.
C28_AddAppends ==
    [][ChangeReturns("Added")
         => LET device == Device(pending_fut.path)
            IN  /\ pending_fut.stage = "listen" /\ pending_fut.reply = "ok"
                /\ devices' = devices \o <<device>>
                /\ change_streams' =
                       change_streams \o <<property_change_stream(device, DeviceSetInterest)>>
                /\ ret'.path = devices'[Len(devices')].path]_vars

\* C28 witness: dev_A was added to a set that already tracked another device.
C28_Witness ==
    /\ ret = Ret("Added", PathA, NoName)
    /\ Len(devices) = 2
    /\ devices[1].path # PathA
    /\ devices[2].path = PathA
    /\ change_streams[2] = property_change_stream(Device(PathA), DeviceSetInterest)

\* `new` is `old` without its i-th element, in any order.
WithoutOne(old, new, i) ==
    /\ Len(new) = Len(old) - 1
    /\ \A k \in 1..Len(new) : \E j \in 1..Len(old) : new[k] = old[j]
    /\ \A j \in 1..Len(old) :
          Count(new, old[j]) = Count(old, old[j]) - (IF old[j] = old[i] THEN 1 ELSE 0)

\* C29: when change() returns Removed, the signal taken names a path of the
\* set; one entry with that path has been removed from devices and the
\* entry at the same index from change_streams, every other entry remains
\* (in any order), and the device reported has that path.
C29_RemoveRemovesOne ==
    [][ChangeReturns("Removed")
         => LET path == Head(added_removed_stream).object_path
            IN  /\ Head(added_removed_stream).kind = "InterfacesRemoved"
                /\ ret'.path = path
                /\ \E i \in 1..Len(devices) :
                     /\ devices[i].path = path
                     /\ change_streams[i].path = path
                     /\ WithoutOne(devices, devices', i)
                     /\ WithoutOne(change_streams, change_streams', i)]_vars

\* C29 witness: one of three tracked devices was removed and the two
\* others remain, the device of adapter hci10 first.
C29_Witness ==
    /\ ret.kind = "Removed"
    /\ Len(devices) = 2
    /\ Len(change_streams) = 2
    /\ \A i \in 1..2 : devices[i].path # ret.path /\ change_streams[i].path # ret.path
    /\ devices[1].path = PathX

C31_ConstructionKeepsDevices ==
    [][(pc = "start" /\ pc' = "idle")
         => LET Candidates == {o \in objects : Descendant(o.path) /\ DeviceIface \in o.ifaces}
            IN  /\ ret'.kind # "Err"
                /\ Len(change_streams') = Len(devices')
                /\ \A i \in 1..Len(devices') :
                     /\ \E o \in Candidates : o.path = devices'[i].path
                     /\ \A j \in 1..Len(devices') :
                          j # i => devices'[j].path # devices'[i].path
                     /\ change_streams'[i] =
                            property_change_stream(devices'[i], DeviceSetInterest)]_vars

\* The notifications of the log, in arrival order.
RECURSIVE Arrived(_)
Arrived(l) ==
    IF l = <<>> THEN <<>>
    ELSE (IF Head(l).kind = "notify" THEN <<Head(l).args>> ELSE <<>>) \o Arrived(Tail(l))

\* The names wait() returned, in the order of the log.
RECURSIVE Yielded(_)
Yielded(l) ==
    IF l = <<>> THEN <<>>
    ELSE (IF Head(l).kind = "return" THEN <<Head(l).name>> ELSE <<>>) \o Yielded(Tail(l))

\* The names `y` are, notification by notification in the order of `a`, the
\* interest-set names of each notification in any order, the last
\* notification reached possibly in part.
RECURSIVE InArrivalOrder(_, _, _)
InArrivalOrder(y, a, interest) ==
    IF y = <<>> THEN TRUE
    ELSE IF a = <<>> THEN FALSE
    ELSE LET names == Pushes(CHOOSE keys \in Orders(Head(a).changed_properties) : TRUE,
                             Head(a).invalidated_properties, interest)
             n == Len(names)
         IN  IF Len(y) >= n
             THEN /\ \A p \in PropertyName : Count(SubSeq(y, 1, n), p) = Count(names, p)
                  /\ InArrivalOrder(SubSeq(y, n + 1, Len(y)), Tail(a), interest)
             ELSE \A p \in PropertyName : Count(y, p) <= Count(names, p)

\* C32: the names wait() has returned follow the arrival order of their
\* notifications: all interest-set names of a notification come before any
\* name of a later one; and a step of wait() takes notifications from the
\* channel only when the pending buffer is empty.
C32_CrossBatchOrder ==
    /\ [](InArrivalOrder(Yielded(log), Arrived(log), mux.interest))
    /\ [][Len(mux'.stream) < Len(mux.stream) => mux.change_buffer = <<>>]_vars

\* C32 witness: two notifications with interest-set names were delivered
\* before the first wait(), and names of both have been returned.
C32_Witness ==
    /\ Len(log) >= 5
    /\ log[1].kind = "notify" /\ Cardinality(log[1].args.changed_properties) = 2
    /\ log[2].kind = "notify"
    /\ Len(Yielded(log)) >= 3
    /\ log[Len(log)].kind = "return"
    /\ mux.interest = PropertyName

\* C33: a connect() whose Connect call failed returns Ok if is_connected()
\* then answers true, and the error of Connect if it answers false or
\* fails; that error is returned in no other case.
C33_FailedConnectRechecks ==
    \A k \in 1..Len(history) :
        LET h == history[k]
        IN  h.op = "connect"
              => /\ h.recheck = "true" => h.res = "Ok"
                 /\ h.recheck \in {"false", "err"} => h.res = "ConnectErr"
                 /\ h.res = "ConnectErr"
                      => h.calls = 1 /\ h.first = "false" /\ h.recheck \in {"false", "err"}
                 /\ h.recheck # "none" => h.calls = 1 /\ h.first = "false"

\* C33 witness: one connect() returned Ok after a failed Connect because the
\* device had got connected meanwhile, another returned the Connect error
\* because the status query failed.
C33_Witness ==
    /\ Len(history) = 2
    /\ \E k \in 1..2 : history[k].recheck = "true" /\ history[k].res = "Ok"
    /\ \E k \in 1..2 : history[k].recheck = "err" /\ history[k].res = "ConnectErr"

\* C34: a path whose last add/remove signal taken was a removal has no
\* device and no multiplexer in the set, and no Changed is reported for it.
C34_RemovedStaysOut ==
    /\ [](\A p \in gone : \A i \in 1..Len(devices) :
             devices[i].path # p /\ change_streams[i].path # p)
    /\ [][ChangeReturns("Changed") => ret'.path \notin gone]_vars

\* An add signal for a device at path p is queued in the subscription or in
\* flight in the closure future.
PendingAdd(stream, fut, p) ==
    \/ \E k \in 1..Len(stream) :
          /\ stream[k].kind = "InterfacesAdded" /\ stream[k].object_path = p
          /\ is_device_of_adapter(p, stream[k].interfaces)
    \/ fut # NoFut /\ fut.path = p

\* C35: a device that appears while the subscription is open, before or
\* after the snapshot, has an add signal pending from then on, and a pending
\* add goes away only when Added is reported for its device (or the
\* device's construction failed): the device is not missed.
C35_NeverMissed ==
    /\ [][\A o \in BusObjects :
            (/\ o \notin objects /\ o \in objects'
             /\ is_device_of_adapter(o.path, o.ifaces)
             /\ ~stream_ended)
              => PendingAdd(added_removed_stream', pending_fut', o.path)]_vars
    /\ [][\A p \in DevicePaths :
            (/\ PendingAdd(added_removed_stream, pending_fut, p)
             /\ ~PendingAdd(added_removed_stream', pending_fut', p))
              => \/ /\ ret'.kind = "Added" /\ ret'.path = p
                    /\ devices'[Len(devices')].path = p
                 \/ pending_fut.path = p /\ pending_fut.reply = "err"]_vars

\* C36: the indices the modifications carry are valid when change() applies
\* them.  Every wait() future of a call has an index inside devices and
\* change_streams, whose device is the one its multiplexer listens to; the
\* index position() finds for a remove signal is inside both sequences and
\* names the signal's device in both; and Removed / Changed report the
\* device found at such an index.
C36_IndicesInBounds ==
    /\ [](\A i \in (1..Len(change_streams)) \cup done :
             /\ i \in 1..Len(devices)
             /\ i \in 1..Len(change_streams)
             /\ devices[i].path = change_streams[i].path)
    /\ [](\A k \in 1..Len(added_removed_stream) :
             LET i == position(devices, added_removed_stream[k].object_path)
             IN  i # 0 => /\ i \in 1..Len(devices)
                          /\ i \in 1..Len(change_streams)
                          /\ devices[i].path = added_removed_stream[k].object_path
                          /\ change_streams[i].path = added_removed_stream[k].object_path)
    /\ [][(ChangeReturns("Removed") \/ ChangeReturns("Changed"))
            => \E i \in 1..Len(devices) :
                  /\ i <= Len(change_streams)
                  /\ devices[i].path = ret'.path
                  /\ change_streams[i].path = ret'.path]_vars

\* C36 witness: after a removal moved the last device into the place of the
\* removed one, a Changed was applied for the device at the last index.
C36_Witness ==
    /\ ret.kind = "Changed"
    /\ gone # {}
    /\ Len(initial) = 2
    /\ Len(devices) = 2
    /\ devices[2].path = ret.path
    /\ devices[1] = initial[2]

\* C37: from the connected check of wait_services_resolved() on, whenever
\* the services are resolved the call gets to return Ok from
\* wait_services_resolved() (and goes on to enumerate), unless the services
\* stop being resolved (the device disconnects), the change stream ends or
\* a read fails: it does not stay waiting.
C37_ResolvedNotMissed ==
    (/\ dpc \in {"subscribe", "services_resolved", "wait"}
     /\ services_resolved)
      ~> \/ dpc = "enumerate"
         \/ ~services_resolved
         \/ resolved_ended
         \/ dpc = "idle" /\ history # <<>> /\ history[Len(history)].res = "Err"

\* C37 witness: the call found the services unresolved and waits; they have
\* become resolved since and the change is in its stream.
C37_Witness ==
    /\ dpc = "wait"
    /\ connected
    /\ services_resolved
    /\ resolved_changed
    /\ ~resolved_ended

====
